---- MODULE Spec2Model ----
(***************************************************************************)
(* A model of the computation-graph Builder of src/src/lib.rs: the node    *)
(* list, the constraint list, the construction API (init, constant, add,   *)
(* mul, hint, assert_equal), the value propagation of fill_nodes and the   *)
(* constraint check of check_constraints.                                  *)
(*                                                                         *)
(* NodeIds are 0-based as in the source; the node with id i is nodes[i+1]. *)
(* An Option<u32> is a sequence of length at most one.  A panic of the     *)
(* program is recorded in the variable panic and ends the run.             *)
(***************************************************************************)
EXTENDS Integers, Sequences, FiniteSets, TLC

\* ---------------------------------------------------------------- bounds
MaxNodes == 3
MaxConstraints == 2

\* ------------------------------------------------------------------ u32
\* Node values are u32 (lib.rs:9).  A u32 is held as <<hi, lo>>, its two
\* 16-bit halves, so that every intermediate result of the arithmetic
\* stays a small integer; a product is taken over the four bytes.
Half == 65536

Byte == 256

U32(hi, lo) == <<hi, lo>>

U32One == U32(0, 1)

U32Max == U32(Half - 1, Half - 1)

\* a + b as the machine computes it: the low 32 bits and the carry out.
u32_add(a, b) ==
    LET lo == a[2] + b[2]
        hi == a[1] + b[1] + (lo \div Half)
    IN  [overflow |-> hi >= Half, value |-> U32(hi % Half, lo % Half)]

u32_bytes(a) == <<a[2] % Byte, a[2] \div Byte, a[1] % Byte, a[1] \div Byte>>

\* Column k of the schoolbook product of two 4-byte numbers.
mul_column(x, y, k) ==
    LET term(i) == IF k + 2 - i \in 1..4 THEN x[i] * y[k + 2 - i] ELSE 0
    IN  term(1) + term(2) + term(3) + term(4)

\* a * b as the machine computes it: the low 32 bits, and whether any bit
\* above them is set.
u32_mul(a, b) ==
    LET x == u32_bytes(a)
        y == u32_bytes(b)
        t0 == mul_column(x, y, 0)
        t1 == mul_column(x, y, 1) + (t0 \div Byte)
        t2 == mul_column(x, y, 2) + (t1 \div Byte)
        t3 == mul_column(x, y, 3) + (t2 \div Byte)
        high == (t3 \div Byte) + mul_column(x, y, 4) + mul_column(x, y, 5)
                + mul_column(x, y, 6)
    IN  [overflow |-> high > 0,
         value |-> U32((t2 % Byte) + Byte * (t3 % Byte),
                       (t0 % Byte) + Byte * (t1 % Byte))]

\* ------------------------------------------------------------ input sets
\* Values handed to constant().
ConstantVals == {U32One}

\* NodeId arguments handed to add() and to mul(): ids of existing nodes, of
\* the node being created, and of nodes not created yet.
AddPairs == {<<0, 0>>, <<0, 1>>, <<1, 1>>, <<2, 2>>}

MulPairs == {<<0, 0>>, <<0, 1>>}

\* NodeId arguments handed to assert_equal().
ConstraintPairs == {<<0, 1>>, <<1, 2>>}

\* The calls of hint(): the value function, |values| values[0] ("first"),
\* |values| values[values.len() - 1] ("last") or |values| values.len() as u32
\* ("count"), and the depends_on list, of arity 0, 1, 2 and 3; <<1>> names,
\* for a hint created first, a node created after the hint.
HintCalls == {<<"count", << >>>>, <<"last", <<0>>>>, <<"last", <<1>>>>,
              <<"first", <<1, 0>>>>, <<"last", <<0, 0, 1>>>>}

\* ---------------------------------------------------------------- Option
None == << >>

Some(v) == <<v>>

is_some(o) == Len(o) = 1

is_none(o) == Len(o) = 0

\* The inputs vectors handed to fill_nodes(): Vec<Option<u32>>.
InputVecs == {<< >>, <<None>>, <<Some(U32One)>>, <<Some(U32Max)>>,
              <<None, Some(U32One)>>}

\* ---------------------------------------------------------------- panics
NoPanic == "none"

PanicIndex == "index out of bounds"

\* The same panic raised inside a hint's closure, where the index is into
\* the closure's own copy of the node list (lib.rs:173); the panic message
\* carries the location.
PanicSnapshotIndex == "index out of bounds (hint closure)"

PanicArity == "Unsupported number of parent values"

PanicAddOverflow == "attempt to add with overflow"

PanicMulOverflow == "attempt to multiply with overflow"

PanicUnwrap == "called Option::unwrap() on a None value"

PanicExpect == "Parent value should be filled"

VARIABLES
    nodes,            \* Builder.nodes: Vec<Rc<Node>>
    constraints,      \* Builder.constraints: Vec<(NodeId, NodeId)>
    node_counter,     \* Builder.node_counter
    pc,               \* "idle", or "filling" inside the loop of fill_nodes
    passes,           \* passes of the loop of fill_nodes completed so far
    ret,              \* "true" or "false": what check_constraints, the
                      \* last call made, returned; NoRet after other calls
    panic,            \* NoPanic, or the panic that ended the program
    overflow_checks,  \* the build profile: TRUE debug, FALSE release
    kinds             \* history: the constructor that created each node

vars == <<nodes, constraints, node_counter, pc, passes, ret, panic,
          overflow_checks, kinds>>

NoRet == "none"

\* ------------------------------------------------------------------ Node
\* Node::new: the operation is None until add_operation or hint sets it.
NoOperation == [op |-> "none", value_func |-> "none", snapshot |-> 0]

Node_new(value, is_hint, parents) ==
    [value |-> value, is_hint |-> is_hint, parents |-> parents,
     operation |-> NoOperation]

\* self.nodes[id]: in bounds iff id < nodes.len().
in_bounds(nds, id) == id >= 0 /\ id < Len(nds)

node_at(nds, id) == nds[id + 1]

value_of(nds, id) == node_at(nds, id).value

\* A slip in the store of a computed value: the node is replaced by a new
\* node holding the value, and its parents and operation are lost.
set_value_replaces_node(nds, id, v) ==
    [nds EXCEPT ![id + 1] = Node_new(v, FALSE, << >>)]

set_value(nds, id, v) == [nds EXCEPT ![id + 1].value = v]

set_operation(nds, id, o) == [nds EXCEPT ![id + 1].operation = o]

\* ------------------------------------------------------------ operations
\* The closure of add (lib.rs:79): a + b on u32.  The sum of two u32 that
\* does not fit panics in a build with overflow checks and wraps without.
call_add(a, b) ==
    IF u32_add(a, b).overflow /\ overflow_checks
    THEN [panic |-> PanicAddOverflow, value |-> U32(0, 0)]
    ELSE [panic |-> NoPanic, value |-> u32_add(a, b).value]

\* The closure of mul (lib.rs:84): a * b on u32.
call_mul(a, b) ==
    IF u32_mul(a, b).overflow /\ overflow_checks
    THEN [panic |-> PanicMulOverflow, value |-> U32(0, 0)]
    ELSE [panic |-> NoPanic, value |-> u32_mul(a, b).value]

\* The caller's value_func (lib.rs:175): "count" is the length of the
\* slice; "first" and "last" index it.
call_value_func(value_func, values) ==
    IF value_func = "count"
    THEN [panic |-> NoPanic, value |-> U32(0, Len(values))]
    ELSE IF Len(values) = 0
    THEN [panic |-> PanicIndex, value |-> U32(0, 0)]
    ELSE [panic |-> NoPanic,
          value |-> IF value_func = "first" THEN values[1]
                    ELSE values[Len(values)]]

\* The reads of the closure of hint (lib.rs:171-174): for each id of
\* depends_on from position i on, nodes[id] of the captured copy of the node
\* list (its first `snapshot` nodes, shared with the builder), then expect().
RECURSIVE closure_reads(_, _, _, _)
closure_reads(nds, depends_on, snapshot, i) ==
    IF i > Len(depends_on)
    THEN [panic |-> NoPanic, values |-> << >>]
    ELSE LET id == depends_on[i]
         IN  IF ~(id >= 0 /\ id < snapshot)
             THEN [panic |-> PanicSnapshotIndex, values |-> << >>]
             ELSE IF is_none(value_of(nds, id))
             THEN [panic |-> PanicExpect, values |-> << >>]
             ELSE LET rest == closure_reads(nds, depends_on, snapshot, i + 1)
                  IN  IF rest.panic # NoPanic
                      THEN rest
                      ELSE [panic |-> NoPanic,
                            values |-> <<value_of(nds, id)[1]>> \o rest.values]

\* The closure of hint (lib.rs:170-176): ignores its two arguments.
call_hint(nds, node) ==
    LET reads == closure_reads(nds, node.parents, node.operation.snapshot, 1)
    IN  IF reads.panic # NoPanic
        THEN [panic |-> reads.panic, value |-> U32(0, 0)]
        ELSE call_value_func(node.operation.value_func, reads.values)

\* operation(x, y) of lib.rs:105-106 for the operation stored in the node.
call_operation(nds, node, x, y) ==
    IF node.operation.op = "add" THEN call_add(x, y)
    ELSE IF node.operation.op = "mul" THEN call_mul(x, y)
    ELSE call_hint(nds, node)

\* ------------------------------------------------------------- fill_node
all_in_bounds(nds, ids) == \A i \in 1..Len(ids) : in_bounds(nds, ids[i])

all_some(nds, ids) == \A i \in 1..Len(ids) : is_some(value_of(nds, ids[i]))

\* fill_node for a node whose value is None (lib.rs:95-115).
fill_absent_node(nds, node_id) ==
    LET node == node_at(nds, node_id)
        unchanged == [nodes |-> nds, filled |-> FALSE, panic |-> NoPanic]
        panicked(msg) == [nodes |-> nds, filled |-> FALSE, panic |-> msg]
    IN  IF ~all_in_bounds(nds, node.parents) THEN panicked(PanicIndex)
        ELSE IF ~all_some(nds, node.parents) THEN unchanged
        ELSE IF node.operation.op = "none" THEN unchanged
        ELSE IF Len(node.parents) \notin {1, 2} THEN panicked(PanicArity)
        ELSE LET x == value_of(nds, node.parents[1])[1]
                 y == IF Len(node.parents) = 2
                      THEN value_of(nds, node.parents[2])[1]
                      ELSE x
                 result == call_operation(nds, node, x, y)
             IN  IF result.panic # NoPanic THEN panicked(result.panic)
                 ELSE [nodes |-> set_value(nds, node_id, Some(result.value)),
                       filled |-> TRUE, panic |-> NoPanic]

\* A slip in fill_node: a node that already has a value is reported filled.
fill_node_reports_present(nds, node_id) ==
    IF is_some(value_of(nds, node_id))
    THEN [nodes |-> nds, filled |-> TRUE, panic |-> NoPanic]
    ELSE fill_absent_node(nds, node_id)

\* A slip in fill_node: the test that the value is None is missing, so a
\* node that has a value is computed again.
fill_node_recomputes(nds, node_id) ==
    fill_absent_node(nds, node_id)

\* fill_node (lib.rs:92-116): [nodes, filled, panic].
fill_node(nds, node_id) ==
    IF is_some(value_of(nds, node_id))
    THEN [nodes |-> nds, filled |-> FALSE, panic |-> NoPanic]
    ELSE fill_absent_node(nds, node_id)

\* A pass that visits the ids from the last to the first.
RECURSIVE fill_pass_descending(_, _, _)
fill_pass_descending(nds, count, filled_any) ==
    IF count = 0
    THEN [nodes |-> nds, filled_any |-> filled_any, panic |-> NoPanic]
    ELSE LET r == fill_node(nds, count - 1)
         IN  IF r.panic # NoPanic
             THEN [nodes |-> r.nodes, filled_any |-> filled_any,
                   panic |-> r.panic]
             ELSE fill_pass_descending(r.nodes, count - 1,
                                       filled_any \/ r.filled)

fill_pass_reversed(nds, node_id, filled_any) ==
    fill_pass_descending(nds, Len(nds) - node_id, filled_any)

\* One pass of the for loop of fill_nodes (lib.rs:129-133) from node_id on:
\* [nodes, filled_any, panic].
RECURSIVE fill_pass(_, _, _)
fill_pass(nds, node_id, filled_any) ==
    IF node_id >= Len(nds)
    THEN [nodes |-> nds, filled_any |-> filled_any, panic |-> NoPanic]
    ELSE LET r == fill_node(nds, node_id)
         IN  IF r.panic # NoPanic
             THEN [nodes |-> r.nodes, filled_any |-> filled_any,
                   panic |-> r.panic]
             ELSE fill_pass(r.nodes, node_id + 1, filled_any \/ r.filled)

\* A slip in the first loop: every entry is stored, a None entry too.
set_inputs_stores_none(nds, inputs, i) ==
    IF Len(inputs) > Len(nds)
    THEN [nodes |-> nds, panic |-> PanicIndex]
    ELSE [nodes |-> [k \in 1..Len(nds) |->
                        IF k >= i /\ k <= Len(inputs)
                        THEN [nds[k] EXCEPT !.value = inputs[k]]
                        ELSE nds[k]],
          panic |-> NoPanic]

\* The first loop of fill_nodes (lib.rs:120-125) from position i on: every
\* Some(value) is stored into nodes[position]: [nodes, panic].
RECURSIVE set_inputs(_, _, _)
set_inputs(nds, inputs, i) ==
    IF i > Len(inputs) THEN [nodes |-> nds, panic |-> NoPanic]
    ELSE IF is_none(inputs[i]) THEN set_inputs(nds, inputs, i + 1)
    ELSE IF ~in_bounds(nds, i - 1) THEN [nodes |-> nds, panic |-> PanicIndex]
    ELSE set_inputs(set_value(nds, i - 1, inputs[i]), inputs, i + 1)

\* A slip in the loop: a single pass instead of passes up to the fixpoint.
fill_loop_single_pass(nds) ==
    LET r == fill_pass(nds, 0, FALSE)
    IN  [nodes |-> r.nodes, panic |-> r.panic]

\* The loop of fill_nodes (lib.rs:127-137): passes until one fills nothing:
\* [nodes, panic].
RECURSIVE fill_loop(_)
fill_loop(nds) ==
    LET r == fill_pass(nds, 0, FALSE)
    IN  IF r.panic # NoPanic THEN [nodes |-> r.nodes, panic |-> r.panic]
        ELSE IF r.filled_any THEN fill_loop(r.nodes)
        ELSE [nodes |-> r.nodes, panic |-> NoPanic]

\* A whole call of fill_nodes (lib.rs:119-138): [nodes, panic].
fill_nodes_run(nds, inputs) ==
    LET r == set_inputs(nds, inputs, 1)
    IN  IF r.panic # NoPanic THEN r ELSE fill_loop(r.nodes)

\* ----------------------------------------------------- check_constraints
\* A slip in the comparison: a is compared with itself.
constraint_holds_self(nds, a, b) == value_of(nds, a) = value_of(nds, a)

\* The comparison of check_constraints (lib.rs:153) for resolved a and b.
constraint_holds(nds, a, b) == value_of(nds, a) = value_of(nds, b)

\* A slip in check_constraints: the values of all constraints are unwrapped
\* before the first comparison is made.
check_from_unwraps_all_first(nds, cs, i) ==
    LET rest == i..Len(cs)
    IN  IF \E k \in rest : ~in_bounds(nds, cs[k][1]) \/ ~in_bounds(nds, cs[k][2])
        THEN [panic |-> PanicIndex, value |-> FALSE]
        ELSE IF \E k \in rest : \/ is_none(value_of(nds, cs[k][1]))
                                  \/ is_none(value_of(nds, cs[k][2]))
        THEN [panic |-> PanicUnwrap, value |-> FALSE]
        ELSE [panic |-> NoPanic,
              value |-> \A k \in rest : constraint_holds(nds, cs[k][1], cs[k][2])]

\* check_constraints (lib.rs:142-158) from constraint i on:
\* [panic, value], value the bool returned.
RECURSIVE check_from(_, _, _)
check_from(nds, cs, i) ==
    IF i > Len(cs) THEN [panic |-> NoPanic, value |-> TRUE]
    ELSE LET a == cs[i][1]
             b == cs[i][2]
         IN  IF ~in_bounds(nds, a) \/ ~in_bounds(nds, b)
             THEN [panic |-> PanicIndex, value |-> FALSE]
             ELSE IF is_none(value_of(nds, a)) \/ is_none(value_of(nds, b))
             THEN [panic |-> PanicUnwrap, value |-> FALSE]
             ELSE IF ~constraint_holds(nds, a, b)
             THEN [panic |-> NoPanic, value |-> FALSE]
             ELSE check_from(nds, cs, i + 1)

\* ------------------------------------------------------------------ Init
\* Builder::new (lib.rs:45-51), in either build profile.
Init ==
    /\ nodes = << >>
    /\ constraints = << >>
    /\ node_counter = 0
    /\ pc = "idle"
    /\ passes = 0
    /\ ret = NoRet
    /\ panic = NoPanic
    /\ overflow_checks \in BOOLEAN
    /\ kinds = << >>

\* A call of the API starts only when no call is running and no panic has
\* ended the program.
callable == pc = "idle" /\ panic = NoPanic

\* ------------------------------------------------- the construction API
\* create_node (lib.rs:53-58): the node list with the new node pushed; the
\* id returned is the old node_counter.
create_node(nds, value, is_hint, parents) ==
    Append(nds, Node_new(value, is_hint, parents))

\* init (lib.rs:61-63)
init ==
    /\ callable
    /\ Len(nodes) < MaxNodes
    /\ nodes' = create_node(nodes, None, FALSE, << >>)
    /\ node_counter' = node_counter + 1
    /\ ret' = NoRet
    /\ kinds' = Append(kinds, "Input")
    /\ UNCHANGED <<constraints, pc, passes, panic, overflow_checks>>

\* constant (lib.rs:66-68)
constant(value) ==
    /\ callable
    /\ Len(nodes) < MaxNodes
    /\ nodes' = create_node(nodes, Some(value), FALSE, << >>)
    /\ node_counter' = node_counter + 1
    /\ ret' = NoRet
    /\ kinds' = Append(kinds, "Constant")
    /\ UNCHANGED <<constraints, pc, passes, panic, overflow_checks>>

\* A slip in the id create_node returns: node_counter after the increment.
add_operation_id_off_by_one(nds, counter, a, b, op) ==
    set_operation(create_node(nds, None, FALSE, <<a, b>>), counter + 1,
                  [op |-> op, value_func |-> "none", snapshot |-> 0])

\* add_operation (lib.rs:71-75): the node list after the call.
add_operation(nds, counter, a, b, op) ==
    set_operation(create_node(nds, None, FALSE, <<a, b>>), counter,
                  [op |-> op, value_func |-> "none", snapshot |-> 0])

\* add (lib.rs:78-80)
add(a, b) ==
    /\ callable
    /\ Len(nodes) < MaxNodes
    /\ nodes' = add_operation(nodes, node_counter, a, b, "add")
    /\ node_counter' = node_counter + 1
    /\ ret' = NoRet
    /\ kinds' = Append(kinds, "Add")
    /\ UNCHANGED <<constraints, pc, passes, panic, overflow_checks>>

\* mul (lib.rs:83-85)
mul(a, b) ==
    /\ callable
    /\ Len(nodes) < MaxNodes
    /\ nodes' = add_operation(nodes, node_counter, a, b, "mul")
    /\ node_counter' = node_counter + 1
    /\ ret' = NoRet
    /\ kinds' = Append(kinds, "Mul")
    /\ UNCHANGED <<constraints, pc, passes, panic, overflow_checks>>

\* hint (lib.rs:162-179): the closure captures value_func, depends_on and a
\* copy of the node list taken after the hint node was pushed.
hint_nodes(nds, counter, value_func, depends_on) ==
    set_operation(create_node(nds, None, TRUE, depends_on), counter,
                  [op |-> "hint", value_func |-> value_func,
                   snapshot |-> Len(nds) + 1])

hint(value_func, depends_on) ==
    /\ callable
    /\ Len(nodes) < MaxNodes
    /\ nodes' = hint_nodes(nodes, node_counter, value_func, depends_on)
    /\ node_counter' = node_counter + 1
    /\ ret' = NoRet
    /\ kinds' = Append(kinds, "Hint")
    /\ UNCHANGED <<constraints, pc, passes, panic, overflow_checks>>

\* assert_equal (lib.rs:88-90)
assert_equal(a, b) ==
    /\ callable
    /\ Len(constraints) < MaxConstraints
    /\ constraints' = Append(constraints, <<a, b>>)
    /\ ret' = NoRet
    /\ UNCHANGED <<nodes, node_counter, pc, passes, panic, overflow_checks,
                   kinds>>

\* ------------------------------------------------------------ fill_nodes
\* fill_nodes (lib.rs:119-125): the call and its first loop.
fill_nodes(inputs) ==
    /\ callable
    /\ LET r == set_inputs(nodes, inputs, 1)
       IN  /\ nodes' = r.nodes
           /\ panic' = r.panic
           /\ pc' = IF r.panic = NoPanic THEN "filling" ELSE "idle"
    /\ passes' = 0
    /\ ret' = NoRet
    /\ UNCHANGED <<constraints, node_counter, overflow_checks, kinds>>

\* fill_nodes (lib.rs:127-137): one iteration of the loop; the call returns
\* after the pass that filled nothing.
fill_nodes_pass ==
    /\ pc = "filling"
    /\ panic = NoPanic
    /\ LET r == fill_pass(nodes, 0, FALSE)
       IN  /\ nodes' = r.nodes
           /\ panic' = r.panic
           /\ pc' = IF r.panic = NoPanic /\ r.filled_any
                    THEN "filling" ELSE "idle"
           /\ passes' = IF r.panic = NoPanic /\ r.filled_any
                        THEN passes + 1 ELSE 0
    /\ UNCHANGED <<constraints, node_counter, ret, overflow_checks, kinds>>

\* check_constraints (lib.rs:142-158)
check_constraints ==
    /\ callable
    /\ LET r == check_from(nodes, constraints, 1)
       IN  /\ panic' = r.panic
           /\ ret' = IF r.panic # NoPanic THEN NoRet
                    ELSE IF r.value THEN "true" ELSE "false"
    /\ UNCHANGED <<nodes, constraints, node_counter, pc, passes,
                   overflow_checks, kinds>>

Next ==
    \/ init
    \/ \E value \in ConstantVals : constant(value)
    \/ \E p \in AddPairs : add(p[1], p[2])
    \/ \E p \in MulPairs : mul(p[1], p[2])
    \/ \E h \in HintCalls : hint(h[1], h[2])
    \/ \E p \in ConstraintPairs : assert_equal(p[1], p[2])
    \/ \E inputs \in InputVecs : fill_nodes(inputs)
    \/ fill_nodes_pass
    \/ check_constraints

Spec == Init /\ [][Next]_vars

\* The calls that build and fill the graph: assert_equal and
\* check_constraints neither read nor write a node, so the node lists this
\* specification reaches are those Spec reaches.
NextFill ==
    \/ init
    \/ \E value \in ConstantVals : constant(value)
    \/ \E p \in AddPairs : add(p[1], p[2])
    \/ \E p \in MulPairs : mul(p[1], p[2])
    \/ \E h \in HintCalls : hint(h[1], h[2])
    \/ \E inputs \in InputVecs : fill_nodes(inputs)
    \/ fill_nodes_pass

SpecFill == Init /\ [][NextFill]_vars

\* The calls that decide a constraint check: nodes with and without a
\* value, sums of them, constraints, fills and checks.
NextCheck ==
    \/ init
    \/ \E value \in ConstantVals : constant(value)
    \/ \E p \in AddPairs : add(p[1], p[2])
    \/ \E p \in ConstraintPairs : assert_equal(p[1], p[2])
    \/ \E inputs \in InputVecs : fill_nodes(inputs)
    \/ fill_nodes_pass
    \/ check_constraints

SpecCheck == Init /\ [][NextCheck]_vars

\* ==================================================================
\* Properties
\* ==================================================================
NodeIds == 0..(Len(nodes) - 1)

kind_of(id) == kinds[id + 1]

resolved(id) == in_bounds(nodes, id) /\ is_some(value_of(nodes, id))

\* The ids a node names as parents that are ids of nodes.
parent_ids(id) ==
    {node_at(nodes, id).parents[k] :
         k \in 1..Len(node_at(nodes, id).parents)} \cap NodeIds

RECURSIVE ancestors_within(_, _)
ancestors_within(S, n) ==
    IF n = 0
    THEN S
    ELSE ancestors_within(S \cup UNION {parent_ids(a) : a \in S}, n - 1)

\* The nodes reached from id by following parents one or more times.
ancestors(id) == ancestors_within(parent_ids(id), Len(nodes))

\* A step by which a fill_nodes call returns normally.
fill_nodes_returns == pc = "filling" /\ pc' = "idle" /\ panic' = NoPanic

AllConstraintSidesResolved ==
    \A k \in 1..Len(constraints) :
        resolved(constraints[k][1]) /\ resolved(constraints[k][2])

AllConstraintsEqual ==
    \A k \in 1..Len(constraints) :
        value_of(nodes, constraints[k][1]) = value_of(nodes, constraints[k][2])

\* C1: check_constraints never aborts on a constraint with an unresolved
\* side: it does not panic on the unwrap of an absent value, and it returns
\* true only when both sides of every constraint are resolved.
C1_UnresolvedIsReported ==
    /\ panic # PanicUnwrap
    /\ ret = "true" => AllConstraintSidesResolved

\* C2: the first loop of fill_nodes changes the value of node i only if
\* node i was created by init(): Constant, Add, Mul and Hint nodes keep
\* their value whatever the inputs hold at their position.
C2_NonInputEntriesIgnored ==
    [][(pc = "idle" /\ pc' = "filling") =>
          \A i \in 1..Len(nodes) :
              kinds[i] # "Input" => nodes'[i].value = nodes[i].value]_vars

\* C3: between calls, every Add and every Mul node whose value is present
\* and whose two parents are resolved holds the sum, respectively the
\* product, modulo 2^32 of its parents' current values.
C3_ArithmeticOfCurrentParents ==
    callable =>
        \A id \in NodeIds :
            LET node == node_at(nodes, id)
            IN  (/\ kind_of(id) \in {"Add", "Mul"}
                 /\ is_some(node.value)
                 /\ resolved(node.parents[1])
                 /\ resolved(node.parents[2]))
                => LET x == value_of(nodes, node.parents[1])[1]
                       y == value_of(nodes, node.parents[2])[1]
                   IN  node.value[1] = IF kind_of(id) = "Add"
                                       THEN u32_add(x, y).value
                                       ELSE u32_mul(x, y).value

\* C4: add and mul reject an argument that is not the id of an existing
\* node: every Add or Mul node that is appended has both parents among the
\* nodes that existed before the call.
C4_InvalidReferenceRejected ==
    [][(/\ Len(nodes') = Len(nodes) + 1
        /\ kinds'[Len(nodes')] \in {"Add", "Mul"})
       => \A k \in 1..2 : in_bounds(nodes, nodes'[Len(nodes')].parents[k])]_vars

\* C5: every parent id stored in a node is strictly smaller than the id of
\* the node.
C5_ParentsHaveSmallerIds ==
    \A id \in NodeIds :
        \A k \in 1..Len(node_at(nodes, id).parents) :
            node_at(nodes, id).parents[k] < id

\* C6: a Hint node of any arity is resolved by fill_nodes: a pass never
\* aborts on the number of dependencies, a Hint node whose dependencies are
\* all resolved has a value when fill_nodes returns, and the value a pass
\* gives it is its function applied to the dependency values in order.
C6_HintOfAnyArityResolved ==
    [][pc = "filling" =>
          /\ panic' # PanicArity
          /\ \A i \in 1..Len(nodes) :
                (/\ kinds[i] = "Hint"
                 /\ all_in_bounds(nodes', nodes[i].parents)
                 /\ all_some(nodes', nodes[i].parents))
                => /\ (pc' = "idle" /\ panic' = NoPanic)
                        => is_some(nodes'[i].value)
                   /\ (is_none(nodes[i].value) /\ is_some(nodes'[i].value))
                        => nodes'[i].value[1] =
                           call_value_func(
                               nodes[i].operation.value_func,
                               [k \in 1..Len(nodes[i].parents) |->
                                   value_of(nodes', nodes[i].parents[k])[1]]
                           ).value]_vars

\* C7: fill_nodes(I) followed by fill_nodes(I) leaves every node as the first
\* call left it, for every graph and every inputs vector I.
C7_FillTwiceIsFillOnce ==
    callable =>
        \A inputs \in InputVecs :
            LET once == fill_nodes_run(nodes, inputs)
            IN  once.panic = NoPanic
                => fill_nodes_run(once.nodes, inputs) = once

\* A state from which fill_nodes(I), I supplying a value, returns having
\* resolved by propagation an Add, Mul or Hint node beyond the positions of
\* I, and the second call leaves its result alone.
C7_Witness ==
    /\ callable
    /\ \E inputs \in InputVecs :
          LET once == fill_nodes_run(nodes, inputs)
          IN  /\ once.panic = NoPanic
              /\ \E k \in 1..Len(inputs) : is_some(inputs[k])
              /\ \E id \in NodeIds :
                    /\ kind_of(id) \in {"Add", "Mul", "Hint"}
                    /\ id >= Len(inputs)
                    /\ is_none(value_of(nodes, id))
                    /\ is_some(value_of(once.nodes, id))
              /\ fill_nodes_run(once.nodes, inputs) = once

\* C8: inside the loop of fill_nodes the number of passes that resolved
\* something is at most the number of nodes, so the loop ends.
C8_ResolvingPassesBounded ==
    pc = "filling" => passes <= Len(nodes)

\* Two passes have each resolved something and the loop is still running.
C8_Witness == pc = "filling" /\ passes = 2 /\ panic = NoPanic

\* C9: when both sides of every constraint are resolved, check_constraints
\* returns, and returns true exactly when the two values of every
\* constraint are equal (true with no constraint).
C9_CheckIsAllEqual ==
    AllConstraintSidesResolved =>
        /\ panic # PanicUnwrap
        /\ ret # NoRet => (ret = "true" <=> AllConstraintsEqual)

\* check_constraints has returned false on two constraints, all resolved.
C9_Witness ==
    /\ ret = "false"
    /\ Len(constraints) = 2
    /\ AllConstraintSidesResolved

\* C10: a sum or product that does not fit in 32 bits wraps; fill_nodes
\* does not abort on it.
C10_OverflowWraps ==
    panic \notin {PanicAddOverflow, PanicMulOverflow}

\* C11: the passes of the loop of fill_nodes are write-once: a pass leaves
\* every node that has a value as it is, and changes nothing of the other
\* nodes but their value, from absent to present.
C11_PassesWriteOnce ==
    [][pc = "filling" =>
          /\ Len(nodes') = Len(nodes)
          /\ \A i \in 1..Len(nodes) :
                IF is_some(nodes[i].value)
                THEN nodes'[i] = nodes[i]
                ELSE nodes'[i] = [nodes[i] EXCEPT !.value = nodes'[i].value]
      ]_vars

\* A pass has resolved a node while an Add node holds a value that is no
\* longer the sum of its parents: computing it again would overwrite it.
C11_Witness ==
    /\ pc = "filling"
    /\ passes = 1
    /\ \E id \in NodeIds :
          LET node == node_at(nodes, id)
          IN  /\ kind_of(id) = "Add"
              /\ is_some(node.value)
              /\ resolved(node.parents[1])
              /\ resolved(node.parents[2])
              /\ node.value[1] #
                     u32_add(value_of(nodes, node.parents[1])[1],
                             value_of(nodes, node.parents[2])[1]).value

\* C12: node ids are dense and stable: node_counter is the number of nodes,
\* and the id each constructor got back from create_node is the position of
\* its own node, where add, mul and hint stored the operation (a hint's
\* copy of the node list ends with the hint itself).
C12_IdsAreDense ==
    /\ node_counter = Len(nodes)
    /\ Len(kinds) = Len(nodes)
    /\ \A id \in NodeIds :
          LET node == node_at(nodes, id)
          IN  /\ kind_of(id) \in {"Input", "Constant"}
                    <=> node.operation.op = "none"
              /\ kind_of(id) = "Add" <=> node.operation.op = "add"
              /\ kind_of(id) = "Mul" <=> node.operation.op = "mul"
              /\ kind_of(id) = "Hint" <=> node.operation.op = "hint"
              /\ kind_of(id) = "Hint" => node.operation.snapshot = id + 1

\* Three nodes were created, the last two by add and by hint.
C12_Witness ==
    /\ Len(nodes) = 3
    /\ node_counter = 3
    /\ kind_of(1) = "Add"
    /\ kind_of(2) = "Hint"

\* C14: when fill_nodes returns, no Add, Mul or Hint node is absent while
\* all of its parents are resolved; equivalently, every Add, Mul or Hint
\* node whose Input ancestors were all supplied is resolved.
C14_FixpointOnReturn ==
    [][fill_nodes_returns =>
          \A id \in NodeIds :
              kind_of(id) \in {"Add", "Mul", "Hint"} =>
                  /\ is_none(nodes'[id + 1].value) =>
                         \E k \in 1..Len(nodes[id + 1].parents) :
                             LET parent == nodes[id + 1].parents[k]
                             IN  \/ ~in_bounds(nodes, parent)
                                 \/ is_none(nodes'[parent + 1].value)
                  /\ (\A a \in ancestors(id) :
                          kind_of(a) = "Input" => is_some(nodes'[a + 1].value))
                         => is_some(nodes'[id + 1].value)
      ]_vars

\* C15: an Input without a value is not an error of fill_nodes: the call
\* returns without the closure's "Parent value should be filled" panic, the
\* Input and every node that has it as an ancestor are absent on return,
\* and when it is the only Input without a value every other node that does
\* not have it as an ancestor is resolved.
C15_UnsuppliedInputBlocksOnlyDescendants ==
    [][/\ pc = "filling" => panic' # PanicExpect
       /\ fill_nodes_returns =>
              \A i \in NodeIds :
                  (kind_of(i) = "Input" /\ is_none(nodes'[i + 1].value)) =>
                      /\ \A d \in NodeIds :
                             i \in ancestors(d) => is_none(nodes'[d + 1].value)
                      /\ (\A j \in NodeIds \ {i} :
                              kind_of(j) = "Input"
                                  => is_some(nodes'[j + 1].value))
                             => \A d \in NodeIds \ {i} :
                                    i \notin ancestors(d)
                                        => is_some(nodes'[d + 1].value)
      ]_vars

\* C20: a hint's closure reads, for every id in depends_on, the value the
\* builder holds for that id, also when the id is of a node created after
\* the hint: the read through the closure's copy of the node list does not
\* fail.
C20_ClosureSeesBuilderValues ==
    panic \notin {PanicSnapshotIndex, PanicExpect}

\* The outcome of comparing constraint k alone: "invalid" for an id that is
\* no node's, "unresolved" for an absent side, else "unequal" or "equal".
constraint_state(k) ==
    LET a == constraints[k][1]
        b == constraints[k][2]
    IN  IF ~in_bounds(nodes, a) \/ ~in_bounds(nodes, b) THEN "invalid"
        ELSE IF ~resolved(a) \/ ~resolved(b) THEN "unresolved"
        ELSE IF value_of(nodes, a) # value_of(nodes, b) THEN "unequal"
        ELSE "equal"

\* Constraint k is the first one, in recording order, that is not "equal".
first_failing(k) ==
    /\ k \in 1..Len(constraints)
    /\ constraint_state(k) # "equal"
    /\ \A j \in 1..(k - 1) : constraint_state(j) = "equal"

\* C16: check_constraints examines the constraints in recording order and
\* stops at the first one that is unequal or unresolved: that constraint
\* alone decides the outcome (false for unequal, the unwrap panic for
\* unresolved), whatever the later constraints are.
C16_FirstFailingConstraintDecides ==
    /\ ret = "true" => \A k \in 1..Len(constraints) : ~first_failing(k)
    /\ ret = "false" =>
           \E k \in 1..Len(constraints) :
               first_failing(k) /\ constraint_state(k) = "unequal"
    /\ panic = PanicUnwrap =>
           \E k \in 1..Len(constraints) :
               first_failing(k) /\ constraint_state(k) = "unresolved"

\* check_constraints returned false on an unequal first constraint although
\* the second constraint has an absent side.
C16_Witness ==
    /\ ret = "false"
    /\ Len(constraints) = 2
    /\ constraint_state(1) = "unequal"
    /\ constraint_state(2) = "unresolved"

\* C17: the structure is append-only and checking is read-only: no step
\* changes the parents, operation or kind of a node or a recorded constraint;
\* fill_nodes and check_constraints keep the number of nodes and the
\* constraint list; check_constraints and assert_equal keep every node,
\* values included; assert_equal appends one pair.
C17_StructureIsAppendOnly ==
    [][/\ Len(nodes') >= Len(nodes)
       /\ \A i \in 1..Len(nodes) :
              /\ nodes'[i] = [nodes[i] EXCEPT !.value = nodes'[i].value]
              /\ kinds'[i] = kinds[i]
       /\ Len(constraints') >= Len(constraints)
       /\ SubSeq(constraints', 1, Len(constraints)) = constraints
       /\ ((\E inputs \in InputVecs : fill_nodes(inputs)) \/ fill_nodes_pass)
              => /\ Len(nodes') = Len(nodes)
                 /\ kinds' = kinds
                 /\ constraints' = constraints
       /\ check_constraints
              => nodes' = nodes /\ kinds' = kinds /\ constraints' = constraints
       /\ Len(constraints') # Len(constraints)
              => /\ Len(constraints') = Len(constraints) + 1
                 /\ constraints'[Len(constraints')] \in ConstraintPairs
                 /\ nodes' = nodes
                 /\ kinds' = kinds
      ]_vars

\* check_constraints returned true on two constraints over a graph whose
\* Add node was resolved by fill_nodes.
C17_Witness ==
    /\ ret = "true"
    /\ Len(constraints) = 2
    /\ \E id \in NodeIds : kind_of(id) = "Add" /\ resolved(id)

\* C18: a None entry of the inputs, or a position beyond their end, leaves
\* the node's value as it is, and no step makes a present value absent.
C18_ValuesAreNeverCleared ==
    [][/\ \A i \in 1..Len(nodes) :
              is_some(nodes[i].value) => is_some(nodes'[i].value)
       /\ \A inputs \in InputVecs :
              fill_nodes(inputs) =>
                  \A i \in 1..Len(nodes) :
                      (i > Len(inputs) \/ is_none(inputs[i]))
                          => nodes'[i].value = nodes[i].value
      ]_vars

\* The input step of a fill_nodes call has just run and two Input nodes hold
\* the values of two different calls: vec![Some(u32::MAX)] gave node 0 its
\* value and vec![None, Some(1)] gave node 1 its value, so whichever call
\* was the last one left the other node's value in place.
C18_Witness ==
    /\ pc = "filling"
    /\ passes = 0
    /\ Len(nodes) >= 2
    /\ kind_of(0) = "Input"
    /\ kind_of(1) = "Input"
    /\ value_of(nodes, 0) = Some(U32Max)
    /\ value_of(nodes, 1) = Some(U32One)

\* Every parent id of every node is the id of an earlier node.
parents_precede_nodes ==
    \A id \in NodeIds :
        \A k \in 1..Len(node_at(nodes, id).parents) :
            /\ node_at(nodes, id).parents[k] >= 0
            /\ node_at(nodes, id).parents[k] < id

\* C19: in a graph whose parent ids are all smaller than the node's id, the
\* first pass of the loop of fill_nodes reaches the fixpoint: no second pass
\* resolves a node, so the loop runs at most two passes.
C19_OnePassSufficesInIdOrder ==
    (parents_precede_nodes /\ pc = "filling") => passes <= 1

\* The first pass resolved a chain of depth two in a graph in id order.
C19_Witness ==
    /\ parents_precede_nodes
    /\ pc = "filling"
    /\ passes = 1
    /\ Len(nodes) = 3
    /\ kind_of(1) = "Add"
    /\ kind_of(2) = "Add"
    /\ 1 \in parent_ids(2)
    /\ resolved(2)

====
